---- MODULE Spec2Model ----
(***************************************************************************)
(* Policy iteration on a tabular MDP (assignment2/policy_iteration.py).    *)
(*                                                                         *)
(* Numbers.  The program computes in float64.  Here a value (a reward, an  *)
(* entry of v or Q) is an integer count of quanta of 10^-9, so 1.0 is      *)
(* Scale and the default tolerance 1e-8 is 10 quanta.  Probabilities are   *)
(* exact fractions: an outcome's probability is num/ProbDen, a policy      *)
(* entry is num/num_actions, gamma is num/GammaDen.  Every product of a    *)
(* value with fractions is rounded to the nearest quantum once, the way a  *)
(* float operation rounds to the nearest float.                            *)
(***************************************************************************)
EXTENDS Integers, Sequences, FiniteSets, TLC

Scale == 10^9
ProbDen == 2 * 3
GammaDen == 2 * 10

Abs(x) == IF x < 0 THEN -x ELSE x

RECURSIVE SumTo(_, _)
\* f[0] + ... + f[n-1]
SumTo(f, n) == IF n = 0 THEN 0 ELSE f[n - 1] + SumTo(f, n - 1)

RECURSIVE MaxTo(_, _)
\* the largest of f[0], ..., f[n-1], and 0 (all arguments here are >= 0)
MaxTo(f, n) == IF n = 0 THEN 0
               ELSE LET m == MaxTo(f, n - 1) IN IF f[n - 1] > m THEN f[n - 1] ELSE m

\* n/d rounded to the nearest integer (d > 0)
RoundDiv(n, d) == (2 * n + d) \div (2 * d)

\* (w[0]*x[0] + ... + w[n-1]*x[n-1]) / den rounded to the nearest quantum, for
\* weights 0 <= w[i] with sum <= den; the quotients and remainders are summed
\* apart so that no intermediate leaves the 32-bit integers.
WeightedSum(w, x, n, den) ==
    SumTo([i \in 0 .. n - 1 |-> w[i] * (x[i] \div den)], n)
  + RoundDiv(SumTo([i \in 0 .. n - 1 |-> w[i] * (x[i] % den)], n), den)

(***************************************************************************)
(* The environment (gymnasium's FrozenLake in the program; any tabular     *)
(* environment of the same interface here).  env.P[s][a] is a sequence of  *)
(* outcomes (prob, next_state, reward, done); prob is num/ProbDen.         *)
(***************************************************************************)
Out(n, nx, rw, d) == [num |-> n, next |-> nx, reward |-> rw, done |-> d]

MakeEnv(table) ==
    [P |-> table,
     nS |-> Cardinality(DOMAIN table),
     nA |-> Cardinality(DOMAIN table[0])]

\* a terminal state of the environment: every action stays, reward 0, done
Terminal(s, nA) == [a \in 0 .. nA - 1 |-> << Out(ProbDen, s, 0, TRUE) >>]

\* The 2-state, 2-action MDP of the spec's concrete scenario.
EnvScenario ==
    MakeEnv([s \in 0 .. 1 |->
        IF s = 0
        THEN [a \in 0 .. 1 |->
                 IF a = 0 THEN << Out(ProbDen, 0, 0, FALSE) >>
                          ELSE << Out(ProbDen, 1, Scale, TRUE) >>]
        ELSE Terminal(1, 2)])

\* One state, every action a self-loop that pays 0.01: the return of every
\* policy grows for ever when gamma = 1.
EnvLoop ==
    MakeEnv([s \in 0 .. 0 |->
        [a \in 0 .. 1 |-> << Out(ProbDen, 0, Scale \div 100, FALSE) >>]])

\* A slippery 3-state, 3-action corridor in the manner of FrozenLake: each
\* action has three outcomes of probability 1/3, and outcome lists repeat a
\* next state where the walk would leave the corridor.
EnvSlippery ==
    MakeEnv([s \in 0 .. 2 |->
        CASE s = 0 ->
               [a \in 0 .. 2 |->
                  CASE a = 0 -> << Out(2, 0, 0, FALSE), Out(2, 0, 0, FALSE), Out(2, 1, 0, FALSE) >>
                    [] a = 1 -> << Out(2, 0, 0, FALSE), Out(2, 0, 0, FALSE), Out(2, 0, 0, FALSE) >>
                    [] a = 2 -> << Out(2, 0, 0, FALSE), Out(2, 1, 0, FALSE), Out(2, 1, 0, FALSE) >>]
          [] s = 1 ->
               [a \in 0 .. 2 |->
                  CASE a = 0 -> << Out(2, 0, 0, FALSE), Out(2, 0, 0, FALSE), Out(2, 1, 0, FALSE) >>
                    [] a = 1 -> << Out(2, 0, 0, FALSE), Out(2, 1, 0, FALSE), Out(2, 2, Scale, TRUE) >>
                    [] a = 2 -> << Out(2, 1, 0, FALSE), Out(2, 2, Scale, TRUE), Out(2, 2, Scale, TRUE) >>]
          [] s = 2 -> Terminal(2, 3)])

\* State 1 pays -0.5 per step and leaves with probability 1/2 whatever the
\* action; state 0 chooses between leaving at once for r0 and moving to state 1.
\* r0 lies between the two estimates 0.9 * v[1] that the evaluation reaches
\* under the two choices.
EnvTuned ==
    MakeEnv([s \in 0 .. 2 |->
        CASE s = 0 ->
               [a \in 0 .. 1 |->
                  IF a = 0 THEN << Out(ProbDen, 2, -818181815, TRUE) >>
                           ELSE << Out(ProbDen, 1, 0, FALSE) >>]
          [] s = 1 ->
               [a \in 0 .. 1 |->
                  << Out(3, 1, -(Scale \div 2), FALSE), Out(3, 2, -(Scale \div 2), TRUE) >>]
          [] s = 2 -> Terminal(2, 2)])

\* The scenario's state 0 beside a state 1 that pays 0.1 per step and leaves
\* with probability 1/2 whatever the action.
EnvSlow ==
    MakeEnv([s \in 0 .. 2 |->
        CASE s = 0 ->
               [a \in 0 .. 1 |->
                  IF a = 0 THEN << Out(ProbDen, 0, 0, FALSE) >>
                           ELSE << Out(ProbDen, 2, Scale, TRUE) >>]
          [] s = 1 ->
               [a \in 0 .. 1 |->
                  << Out(3, 1, Scale \div 10, FALSE), Out(3, 2, Scale \div 10, TRUE) >>]
          [] s = 2 -> Terminal(2, 2)])

\* The outcome list k of a cell s of a generated environment: stay, move to the
\* other cell, reach the goal (state 2, reward 1), or slip (1/3 each).
CellOutcome(s, k) ==
    LET o == 1 - s IN
    CASE k = 0 -> << Out(ProbDen, s, 0, FALSE) >>
      [] k = 1 -> << Out(ProbDen, o, 0, FALSE) >>
      [] k = 2 -> << Out(ProbDen, 2, Scale, TRUE) >>
      [] k = 3 -> << Out(2, s, 0, FALSE), Out(2, o, 0, FALSE), Out(2, 2, Scale, TRUE) >>

\* Every 3-state, 2-action environment whose cells 0 and 1 draw their outcome
\* lists from CellOutcome (no sure step from cell 0 to the goal) and whose
\* state 2 is terminal.
GeneratedEnvs ==
    { MakeEnv([s \in 0 .. 2 |->
          IF s = 2 THEN Terminal(2, 2)
                   ELSE [a \in 0 .. 1 |-> CellOutcome(s, c[s][a])]])
      : c \in {d \in [0 .. 1 -> [0 .. 1 -> 0 .. 3]] :
                  \A a \in 0 .. 1 : d[0][a] # 2} }

NamedEnvs == {EnvScenario, EnvLoop, EnvSlippery, EnvTuned, EnvSlow}

Envs == NamedEnvs \cup GeneratedEnvs

\* The environments of the specification that follows call sequences.
CallEnvs == {EnvScenario, EnvSlippery, EnvSlow}

(***************************************************************************)
(* Inputs and bounds                                                       *)
(***************************************************************************)
\* gamma as a count of twentieths: 0.9 (the scenario), 0.95 and 1.0 (__main__)
Gammas == {18, 19, 20}

\* policy_evaluation's default epsilon, 1e-8, in quanta
epsilon_default == 10

\* the epsilon argument of direct calls of policy_evaluation: 1e-4 (the
\* default is policy_improvement's)
Epsilons == {10^5}

\* values stay below 2^30 so that sums of two stay in the 32-bit integers;
\* a sweep that would leave the range is not taken
VMax == 2^30

\* improvement rounds followed per call of policy_improvement
MaxRounds == 10

\* run_episode's default max_episode_length (1000 in the program)
DefaultEpisodeLength == 3

\* the largest max_episode_length and num_episodes arguments
MaxEpisodeLength == 3
MaxEpisodes == 2

VARIABLES
    env,            \* self.env: the environment's table env.P and its sizes
    env_s,          \* the environment's current state (changed by reset and step)
    P, r,           \* self.P[t][s][a] as a count of ProbDen-ths, self.r[s][a] in quanta
    policy,         \* self.policy[s][a] as a count of num_actions-ths
    pc,             \* where the running call stands; "idle" between calls
    caller,         \* the public method that was called; "none" between calls
    gamma, epsilon, \* the running call's arguments
    v, delta,       \* policy_evaluation's v and delta
    policy_old, Q,  \* policy_improvement's locals
    round,          \* improvement rounds completed by the last policy_improvement
    v_prev,         \* history: the v of the round before
    action, steps, episode_reward, done, max_episode_length, \* run_episode's locals
    rewards, num_episodes,                                   \* test_policy's locals
    ret,            \* what the last call returned
    hist            \* history: the result of a first call of policy_improvement

vars == << env, env_s, P, r, policy, pc, caller, gamma, epsilon, v, delta,
           policy_old, Q, round, v_prev, action, steps, episode_reward, done,
           max_episode_length, rewards, num_episodes, ret, hist >>

num_states == env.nS
num_actions == env.nA
States == 0 .. num_states - 1
Actions == 0 .. num_actions - 1

(***************************************************************************)
(* __init__                                                                *)
(***************************************************************************)
\* np.ones((S, A)) / A
UniformPolicy == [s \in States |-> [a \in Actions |-> 1]]

\* the outcomes of e.P[s][a] as a function on 0 .. n-1
Outcomes(e, s, a) == [i \in 0 .. Len(e.P[s][a]) - 1 |-> e.P[s][a][i + 1]]

\* self.P[next_state, state, action] += prob, over the outcome lists
BuildP(e) ==
    [t \in 0 .. e.nS - 1 |-> [s \in 0 .. e.nS - 1 |-> [a \in 0 .. e.nA - 1 |->
        LET o == Outcomes(e, s, a) IN
        SumTo([i \in DOMAIN o |-> IF o[i].next = t THEN o[i].num ELSE 0],
              Len(e.P[s][a]))]]]

\* self.r[state, action] += prob * reward, each product rounded
Buildr(e) ==
    [s \in 0 .. e.nS - 1 |-> [a \in 0 .. e.nA - 1 |->
        LET o == Outcomes(e, s, a) IN
        SumTo([i \in DOMAIN o |->
                  WeightedSum([j \in 0 .. 0 |-> o[i].num],
                              [j \in 0 .. 0 |-> o[i].reward], 1, ProbDen)],
              Len(e.P[s][a]))]]

NoRet == [kind |-> "none"]
NoHist(track) ==
    [track |-> track, used |-> FALSE, gamma |-> 0, kept |-> FALSE,
     ret |-> NoRet, between |-> FALSE, again |-> FALSE]

InitOn(E, track) ==
    /\ env \in E
    /\ env_s = 0
    /\ P = BuildP(env)
    /\ r = Buildr(env)
    /\ policy = UniformPolicy
    /\ pc = "idle"
    /\ caller = "none"
    /\ gamma = GammaDen
    /\ epsilon = epsilon_default
    /\ v = [s \in States |-> 0]
    /\ delta = 0
    /\ policy_old = UniformPolicy
    /\ Q = [s \in States |-> [a \in Actions |-> 0]]
    /\ round = 0
    /\ v_prev = [s \in States |-> 0]
    /\ action = 0
    /\ steps = 0
    /\ episode_reward = 0
    /\ done = FALSE
    /\ max_episode_length = DefaultEpisodeLength
    /\ rewards = << >>
    /\ num_episodes = 0
    /\ ret = NoRet
    /\ hist = NoHist(track)

Init == InitOn(Envs, FALSE)

\* history, kept when hist.track: hist.ret is what policy_improvement(hist.gamma)
\* returned when it was the first call made on the instance; hist.between, that
\* a different call was made since; hist.again, that policy_improvement(hist.gamma)
\* returned once more after that
HistStep ==
    hist' =
      IF ~hist.track THEN hist
      ELSE IF pc = "idle" /\ pc' # "idle" /\ ~hist.used
        THEN [hist EXCEPT !.used = TRUE,
                          !.gamma = IF caller' = "policy_improvement" THEN gamma' ELSE 0]
      ELSE IF pc = "idle" /\ pc' # "idle" /\ hist.kept
              /\ ~(caller' = "policy_improvement" /\ gamma' = hist.gamma)
        THEN [hist EXCEPT !.between = TRUE]
      ELSE IF pc # "idle" /\ pc' = "idle" /\ ret'.kind = "policy_improvement"
              /\ hist.gamma = gamma /\ ~hist.kept
        THEN [hist EXCEPT !.kept = TRUE, !.ret = ret']
      ELSE IF pc # "idle" /\ pc' = "idle" /\ ret'.kind = "policy_improvement"
              /\ hist.gamma = gamma /\ hist.between
        THEN [hist EXCEPT !.again = TRUE]
      ELSE hist

\* a call starts with fresh locals and no value returned yet
ClearLocals ==
    /\ delta' = 0
    /\ policy_old' = UniformPolicy
    /\ Q' = [s \in States |-> [a \in Actions |-> 0]]
    /\ v_prev' = [s \in States |-> 0]
    /\ ret' = NoRet

\* a return drops the frame: the arguments and the locals of the evaluation
\* and of the improvement
DropLocals ==
    /\ gamma' = GammaDen
    /\ epsilon' = epsilon_default
    /\ v' = [s \in States |-> 0]
    /\ delta' = 0
    /\ policy_old' = UniformPolicy
    /\ Q' = [s \in States |-> [a \in Actions |-> 0]]
    /\ v_prev' = [s \in States |-> 0]

EpisodeLocalsUnchanged ==
    /\ UNCHANGED << env_s, action, steps, episode_reward, done,
                    max_episode_length, rewards, num_episodes >>
    /\ HistStep

(***************************************************************************)
(* policy_evaluation                                                       *)
(***************************************************************************)
\* r_pi[s] = sum_a policy[s, a] * r[s, a]
r_pi(pol) ==
    [s \in States |-> WeightedSum(pol[s], r[s], num_actions, num_actions)]

\* P_pi[t][s] = sum_a policy[s, a] * P[t, s, a], a count of (ProbDen * num_actions)-ths
P_pi(pol) ==
    [t \in States |-> [s \in States |->
        SumTo([a \in Actions |-> pol[s][a] * P[t][s][a]], num_actions)]]

\* one sweep: r_pi + gamma * np.dot(P_pi.T, v_old)
Sweep(pol, g, v_old) ==
    LET rp == r_pi(pol)
        Pp == P_pi(pol)
    IN [s \in States |->
           rp[s] + WeightedSum([t \in States |-> g * Pp[t][s]], v_old,
                               num_states, GammaDen * ProbDen * num_actions)]

\* a faulty variant, for comparison: the change of state 0 alone
FirstAbsDiff(x, y) == Abs(x[0] - y[0])

\* np.max(np.abs(v - v_old))
MaxAbsDiff(x, y) == MaxTo([s \in States |-> Abs(x[s] - y[s])], num_states)

\* a faulty variant, for comparison: the exit test the wrong way round
ConvergedFlipped(d, e) == d > e

\* delta < epsilon: the loop's exit test
Converged(d, e) == d < e

InRange(x) == \A s \in States : Abs(x[s]) <= VMax

\* policy_evaluation(gamma, epsilon) called on the instance: v = np.zeros(S)
CallPolicyEvaluation(g, e) ==
    /\ pc = "idle"
    /\ pc' = "eval_loop"
    /\ caller' = "policy_evaluation"
    /\ gamma' = g
    /\ epsilon' = e
    /\ v' = [s \in States |-> 0]
    /\ ClearLocals
    /\ UNCHANGED << env, P, r, policy, round >>
    /\ EpisodeLocalsUnchanged

\* one iteration of the while loop: v_old = v.copy(); v = ...; delta = ...;
\* break when delta < epsilon
EvalSweep ==
    /\ pc = "eval_loop"
    /\ LET v_new == Sweep(policy, gamma, v) IN
         /\ InRange(v_new)
         /\ v' = v_new
         /\ delta' = MaxAbsDiff(v_new, v)
         /\ pc' = IF Converged(MaxAbsDiff(v_new, v), epsilon)
                     THEN "eval_return" ELSE "eval_loop"
    /\ UNCHANGED << env, P, r, policy, caller, gamma, epsilon, policy_old, Q,
                    round, v_prev, ret >>
    /\ EpisodeLocalsUnchanged

\* return v, to the caller of policy_evaluation
EvalReturn ==
    /\ pc = "eval_return"
    /\ caller = "policy_evaluation"
    /\ pc' = "idle"
    /\ caller' = "none"
    /\ ret' = [kind |-> "policy_evaluation", gamma |-> gamma,
               epsilon |-> epsilon, v |-> v]
    /\ DropLocals
    /\ UNCHANGED << env, P, r, policy, round >>
    /\ EpisodeLocalsUnchanged

(***************************************************************************)
(* compute_Q_from_v                                                        *)
(***************************************************************************)
\* a faulty variant, for comparison: the reward term forgotten
QWithoutReward(x, g) ==
    [s \in States |-> [a \in Actions |->
        WeightedSum([t \in States |-> g * P[t][s][a]], x,
                    num_states, GammaDen * ProbDen)]]

\* a faulty variant, for comparison: the transition model weighted by the current policy
QUnderPolicy(x, g) ==
    [s \in States |-> [a \in Actions |->
        r[s][a] + WeightedSum([t \in States |-> g * P_pi(policy)[t][s]], x,
                              num_states, GammaDen * ProbDen * num_actions)]]

\* self.r + gamma * np.einsum('tsa,t->sa', self.P, v)
compute_Q_from_v(x, g) ==
    [s \in States |-> [a \in Actions |->
        r[s][a] + WeightedSum([t \in States |-> g * P[t][s][a]], x,
                              num_states, GammaDen * ProbDen)]]

\* the value vectors of direct calls: entries -0.5, 0 or 1, neighbours
\* differing, the first not 0
ValueVectors ==
    {x \in [States -> {-(Scale \div 2), 0, Scale}] :
        x[0] # 0 /\ \A s \in States : s > 0 => x[s] # x[s - 1]}

\* compute_Q_from_v(v, gamma) called on the instance
CallComputeQ(x, g) ==
    /\ pc = "idle"
    /\ ret' = [kind |-> "compute_Q_from_v", gamma |-> g, v |-> x,
               Q |-> compute_Q_from_v(x, g)]
    /\ UNCHANGED << env, P, r, policy, pc, caller, gamma, epsilon, v, delta,
                    policy_old, Q, round, v_prev >>
    /\ EpisodeLocalsUnchanged

(***************************************************************************)
(* policy_improvement                                                      *)
(***************************************************************************)
\* a faulty variant, for comparison: the policy left by the calls before
StartPolicyKept == policy

\* the policy a call of policy_improvement starts from (line 86)
StartPolicy == UniformPolicy

\* a faulty variant, for comparison: the first index of a smallest entry
ArgMin(row) ==
    CHOOSE a \in Actions :
        /\ \A b \in Actions : row[b] >= row[a]
        /\ \A b \in Actions : row[b] = row[a] => a <= b

\* np.argmax over one row of Q: the first index of a largest entry
ArgMax(row) ==
    CHOOSE a \in Actions :
        /\ \A b \in Actions : row[b] <= row[a]
        /\ \A b \in Actions : row[b] = row[a] => a <= b

\* a faulty variant, for comparison: 1.0 written into the old policy, without zeros_like
GreedyInPlace(q) ==
    [s \in States |-> [a \in Actions |->
        IF a = ArgMax(q[s]) THEN num_actions ELSE policy[s][a]]]

\* zeros_like, then 1.0 at [s, argmax(Q[s])]
Greedy(q) ==
    [s \in States |-> [a \in Actions |->
        IF a = ArgMax(q[s]) THEN num_actions ELSE 0]]

\* a faulty variant, for comparison: the loop left after its first round
StableAlways(old, new) == TRUE

\* np.array_equal(policy_old, self.policy)
Stable(old, new) == old = new

\* policy_improvement(gamma) called on the instance: the reset of line 86
CallPolicyImprovement(g) ==
    /\ pc = "idle"
    /\ pc' = "improve_loop"
    /\ caller' = "policy_improvement"
    /\ gamma' = g
    /\ epsilon' = epsilon_default
    /\ policy' = StartPolicy
    /\ round' = 0
    /\ v' = [s \in States |-> 0]
    /\ ClearLocals
    /\ UNCHANGED << env, P, r >>
    /\ EpisodeLocalsUnchanged

\* the top of the while loop: policy_old = self.policy.copy(), then
\* policy_evaluation(gamma) starts with v = np.zeros(S)
ImproveEnter ==
    /\ pc = "improve_loop"
    /\ round < MaxRounds
    /\ policy_old' = policy
    /\ v_prev' = v
    /\ v' = [s \in States |-> 0]
    /\ delta' = 0
    /\ pc' = "eval_loop"
    /\ UNCHANGED << env, P, r, policy, caller, gamma, epsilon, Q, round, ret >>
    /\ EpisodeLocalsUnchanged

\* policy_evaluation returns into policy_improvement: Q, the greedy policy,
\* and the loop's exit test; return self.policy, v, Q when nothing changed
Improve ==
    /\ pc = "eval_return"
    /\ caller = "policy_improvement"
    /\ LET q == compute_Q_from_v(v, gamma)
           new == Greedy(q)
       IN /\ policy' = new
          /\ round' = round + 1
          /\ IF Stable(policy_old, new)
                THEN /\ pc' = "idle"
                     /\ caller' = "none"
                     /\ ret' = [kind |-> "policy_improvement", gamma |-> gamma,
                                policy |-> new, v |-> v, Q |-> q]
                     /\ DropLocals
                ELSE /\ pc' = "improve_loop"
                     /\ Q' = q
                     /\ UNCHANGED << caller, ret, gamma, epsilon, v, delta,
                                     policy_old, v_prev >>
    /\ UNCHANGED << env, P, r >>
    /\ EpisodeLocalsUnchanged

(***************************************************************************)
(* run_episode and test_policy                                             *)
(***************************************************************************)
\* np.random.choice(num_actions, p=policy[s]): any action of positive probability
Sampled(s) == {a \in Actions : policy[s][a] > 0}

\* env.step(action): any outcome of positive probability of env.P[env_s][action]
StepOutcomes(s, a) ==
    {env.P[s][a][i] : i \in {j \in 1 .. Len(env.P[s][a]) : env.P[s][a][j].num > 0}}

PolicyLocalsUnchanged ==
    /\ UNCHANGED << env, P, r, policy, gamma, epsilon, v, delta, policy_old, Q,
                    round, v_prev >>
    /\ HistStep

\* a return drops run_episode's locals
DropEpisode ==
    /\ action' = 0
    /\ steps' = 0
    /\ episode_reward' = 0
    /\ done' = FALSE

\* a return to the instance's caller drops the arguments and test_policy's locals
DropRollout ==
    /\ max_episode_length' = DefaultEpisodeLength
    /\ rewards' = << >>
    /\ num_episodes' = 0

\* lines 113-116: episode_reward = 0, env.reset(), the first action
BeginEpisode ==
    /\ episode_reward' = 0
    /\ env_s' = 0
    /\ action' \in Sampled(0)
    /\ steps' = 0
    /\ done' = FALSE
    /\ pc' = "episode_loop"

\* run_episode(max_episode_length) called on the instance
CallRunEpisode(n) ==
    /\ pc = "idle"
    /\ caller' = "run_episode"
    /\ max_episode_length' = n
    /\ BeginEpisode
    /\ ret' = NoRet
    /\ UNCHANGED << rewards, num_episodes >>
    /\ PolicyLocalsUnchanged

\* a faulty variant, for comparison: one iteration too many
EpisodeGoesOnOneMore == steps <= max_episode_length /\ ~done

\* the for loop runs while t < max_episode_length and no step has reported done
EpisodeGoesOn == steps < max_episode_length /\ ~done

\* one iteration of the for loop: env.step, the reward, the next action
EpisodeStep ==
    /\ pc = "episode_loop"
    /\ EpisodeGoesOn
    /\ \E o \in StepOutcomes(env_s, action) :
         /\ env_s' = o.next
         /\ episode_reward' = episode_reward + o.reward
         /\ action' \in Sampled(o.next)
         /\ done' = o.done
    /\ steps' = steps + 1
    /\ UNCHANGED << pc, caller, max_episode_length, rewards, num_episodes, ret >>
    /\ PolicyLocalsUnchanged

\* return episode_reward, to the caller of run_episode
EpisodeReturn ==
    /\ pc = "episode_loop"
    /\ caller = "run_episode"
    /\ ~EpisodeGoesOn
    /\ pc' = "idle"
    /\ caller' = "none"
    /\ ret' = [kind |-> "run_episode", value |-> episode_reward,
               steps |-> steps, max_episode_length |-> max_episode_length]
    /\ DropEpisode
    /\ DropRollout
    /\ UNCHANGED env_s
    /\ PolicyLocalsUnchanged

\* test_policy(num_episodes) called on the instance: rewards = []
CallTestPolicy(n) ==
    /\ pc = "idle"
    /\ pc' = "test_loop"
    /\ caller' = "test_policy"
    /\ num_episodes' = n
    /\ rewards' = << >>
    /\ max_episode_length' = DefaultEpisodeLength
    /\ ret' = NoRet
    /\ UNCHANGED << env_s, action, steps, episode_reward, done >>
    /\ PolicyLocalsUnchanged

\* the for loop of test_policy: the next self.run_episode(), or return rewards
TestPolicyLoop ==
    /\ pc = "test_loop"
    /\ IF Len(rewards) < num_episodes
          THEN /\ BeginEpisode
               /\ UNCHANGED << caller, ret, max_episode_length, rewards,
                               num_episodes >>
          ELSE /\ pc' = "idle"
               /\ caller' = "none"
               /\ ret' = [kind |-> "test_policy", value |-> rewards,
                          num_episodes |-> num_episodes]
               /\ DropRollout
               /\ UNCHANGED << env_s, action, steps, episode_reward, done >>
    /\ PolicyLocalsUnchanged

\* run_episode returns into test_policy: rewards.append(...)
EpisodeAppend ==
    /\ pc = "episode_loop"
    /\ caller = "test_policy"
    /\ ~EpisodeGoesOn
    /\ rewards' = Append(rewards, episode_reward)
    /\ pc' = "test_loop"
    /\ DropEpisode
    /\ UNCHANGED << env_s, max_episode_length, num_episodes, caller, ret >>
    /\ PolicyLocalsUnchanged

(***************************************************************************)
(* Specifications                                                          *)
(***************************************************************************)
Next ==
    \/ \E g \in Gammas : CallPolicyImprovement(g)
    \/ ImproveEnter
    \/ EvalSweep
    \/ Improve
    \/ \E g \in Gammas, e \in Epsilons : CallPolicyEvaluation(g, e)
    \/ EvalReturn
    \/ \E x \in ValueVectors, g \in Gammas : CallComputeQ(x, g)

NextCalls ==
    \/ \E g \in Gammas : CallPolicyImprovement(g)
    \/ ImproveEnter
    \/ EvalSweep
    \/ Improve
    \/ \E n \in 0 .. MaxEpisodeLength : CallRunEpisode(n)
    \/ EpisodeStep
    \/ EpisodeReturn
    \/ \E n \in 0 .. MaxEpisodes : CallTestPolicy(n)
    \/ TestPolicyLoop
    \/ EpisodeAppend

\* The methods that compute (policy_improvement, policy_evaluation and
\* compute_Q_from_v), called in any order on any environment of Envs.
Spec == Init /\ [][Next]_vars

InitCalls == InitOn(CallEnvs, TRUE)

\* policy_improvement, run_episode and test_policy, called in any order on an
\* environment of CallEnvs.
SpecCalls == InitCalls /\ [][NextCalls]_vars

(***************************************************************************)
(* Properties                                                              *)
(***************************************************************************)
RowStochastic(pol) ==
    \A s \in States :
        /\ \A a \in Actions : pol[s][a] >= 0
        /\ SumTo(pol[s], num_actions) = num_actions

\* every entry is 1/A
IsUniform(pol) == \A s \in States : \A a \in Actions : pol[s][a] * num_actions = num_actions

\* every row has one entry 1 and the others 0
IsDeterministic(pol) ==
    \A s \in States : \E a \in Actions :
        /\ pol[s][a] = num_actions
        /\ \A b \in Actions \ {a} : pol[s][b] = 0

\* C1: in every reachable state the policy is row-stochastic (entries >= 0, rows
\* summing to 1); it is uniform from construction and from the start of
\* policy_improvement until the first improvement round, and deterministic
\* after every improvement round.
C1_PolicyRowStochastic ==
    /\ RowStochastic(policy)
    /\ round = 0 => IsUniform(policy)
    /\ round > 0 => IsDeterministic(policy)

\* an improvement round that changed the policy has been made and the loop goes on
C1_Witness ==
    /\ caller = "policy_improvement"
    /\ pc = "improve_loop"
    /\ round >= 2
    /\ policy # policy_old

\* C2 (as claimed): policy_improvement makes at most A^S improvement rounds.
C2_RoundsWithinPolicyCount == round <= num_actions ^ num_states

InImprovementAfterFirstRound ==
    /\ caller = "policy_improvement"
    /\ pc = "eval_return"
    /\ round >= 1

\* C3 (as claimed): the v that policy_evaluation returns in round k+1 is, at
\* every state, >= the v it returned in round k.
C3_ValuesNeverDecrease ==
    InImprovementAfterFirstRound => \A s \in States : v[s] >= v_prev[s]

\* C3 (amended): for gamma < 1, the v of round k+1 is, at every state, greater
\* than the v of round k minus 2 * epsilon / (1 - gamma).
C3_ValuesDecreaseBounded ==
    (InImprovementAfterFirstRound /\ gamma < GammaDen) =>
        \A s \in States :
            v_prev[s] - v[s] <= (2 * epsilon * GammaDen - 1) \div (GammaDen - gamma)

\* a round whose v is lower somewhere than the round before's, gamma < 1
C3_Witness ==
    /\ InImprovementAfterFirstRound
    /\ gamma < GammaDen
    /\ \E s \in States : v[s] < v_prev[s]

\* |x[s] - (r_pi[s] + g * sum_t P_pi[t][s] * x[t])| < e for the policy pol, in
\* exact arithmetic: with den = GammaDen * ProbDen * A and x[t] = den * q[t] + m[t]
\* the difference times den is den * k - rem, for the k and rem below.
Residual(pol, g, x, e, s) ==
    LET den == GammaDen * ProbDen * num_actions
        w == [t \in States |-> g * P_pi(pol)[t][s]]
        k == x[s] - r_pi(pol)[s]
             - SumTo([t \in States |-> w[t] * (x[t] \div den)], num_states)
        rem == SumTo([t \in States |-> w[t] * (x[t] % den)], num_states)
    IN /\ Abs(k) <= e + den
       /\ Abs(den * k - rem) < e * den

\* C4: when policy_evaluation(gamma, epsilon) is about to return v, v satisfies
\* the Bellman expectation equation of the policy within epsilon at every state.
C4_BellmanResidual ==
    pc = "eval_return" =>
        \A s \in States : Residual(policy, gamma, v, epsilon, s)

\* an evaluation with discounting, a non-default epsilon and a last sweep that
\* still changed v
C4_Witness ==
    /\ pc = "eval_return"
    /\ caller = "policy_evaluation"
    /\ gamma < GammaDen
    /\ epsilon # epsilon_default
    /\ delta > 0

\* C5: on the 2-state scenario, policy_improvement(0.9) returns a policy with
\* probability 1 on action 1 in state 0, and v = (1, 0).
C5_Scenario ==
    (env = EnvScenario /\ ret.kind = "policy_improvement" /\ ret.gamma = 18) =>
        /\ ret.policy[0][1] = num_actions
        /\ ret.policy[0][0] = 0
        /\ ret.v[0] = Scale
        /\ ret.v[1] = 0

\* policy_improvement(0.9) has returned on the scenario
C5_Witness ==
    /\ env = EnvScenario
    /\ pc = "idle"
    /\ ret.kind = "policy_improvement"
    /\ ret.gamma = 18

\* C6: run_episode makes at most max_episode_length steps, none after a step
\* that reported done, and returns the accumulated reward (0 when it made no
\* step); test_policy(N) returns a list of exactly N returns.
C6_RolloutBounded ==
    /\ [](/\ steps <= max_episode_length
          /\ ret.kind = "run_episode" =>
                /\ ret.steps <= ret.max_episode_length
                /\ ret.steps = 0 => ret.value = 0
          /\ ret.kind = "test_policy" => Len(ret.value) = ret.num_episodes)
    /\ [][/\ (pc = "episode_loop" /\ done) => steps' # steps + 1
          /\ steps' = steps + 1 => steps < max_episode_length
          /\ (pc = "episode_loop" /\ caller = "run_episode" /\ pc' = "idle")
                => ret'.value = episode_reward
          /\ (pc = "episode_loop" /\ pc' = "test_loop")
                => rewards' = Append(rewards, episode_reward)]_vars

\* test_policy has returned two returns, one of an episode that was rewarded
C6_Witness ==
    /\ ret.kind = "test_policy"
    /\ ret.num_episodes = MaxEpisodes
    /\ \E i \in 1 .. Len(ret.value) : ret.value[i] > 0

\* q is r[s][a] + g * sum_t P[t][s][a] * x[t] to the nearest quantum, in exact
\* arithmetic: with den = GammaDen * ProbDen and x[t] = den * q[t] + m[t] the
\* difference times den is den * k - rem, for the k and rem below.
Lookahead(q, x, g, s, a) ==
    LET den == GammaDen * ProbDen
        w == [t \in States |-> g * P[t][s][a]]
        k == q - r[s][a]
             - SumTo([t \in States |-> w[t] * (x[t] \div den)], num_states)
        rem == SumTo([t \in States |-> w[t] * (x[t] % den)], num_states)
    IN /\ Abs(k) <= den
       /\ 2 * Abs(den * k - rem) <= den

\* C7: compute_Q_from_v(v, gamma) returns Q of shape (S, A) with Q[s][a] =
\* r[s][a] + gamma * sum_t P[t][s][a] * v[t] (the full model, not the policy),
\* and the call changes neither the policy nor P nor r.
C7_QLookahead ==
    /\ [](ret.kind = "compute_Q_from_v" =>
            /\ DOMAIN ret.Q = States
            /\ \A s \in States :
                 /\ DOMAIN ret.Q[s] = Actions
                 /\ \A a \in Actions :
                      Lookahead(ret.Q[s][a], ret.v, ret.gamma, s, a))
    /\ [][(ret'.kind = "compute_Q_from_v" /\ pc = "idle") =>
             /\ policy' = policy
             /\ P' = P
             /\ r' = r]_vars

\* compute_Q_from_v has returned on an instance whose policy is no longer uniform
C7_Witness ==
    /\ ret.kind = "compute_Q_from_v"
    /\ round > 0
    /\ ret.gamma < GammaDen

\* C8: when policy_improvement returns (policy, v, Q), the policy puts
\* probability 1 on the lowest-index action that maximizes Q[s] and 0 elsewhere,
\* v satisfies the Bellman equation of that policy within epsilon, and Q is the
\* one-step lookahead of v.
C8_OutputsConsistent ==
    ret.kind = "policy_improvement" =>
        /\ policy = ret.policy
        /\ \A s \in States : \E a \in Actions :
              /\ ret.policy[s][a] = num_actions
              /\ \A b \in Actions : b # a => ret.policy[s][b] = 0
              /\ \A b \in Actions : ret.Q[s][b] <= ret.Q[s][a]
              /\ \A b \in Actions : b < a => ret.Q[s][b] < ret.Q[s][a]
        /\ \A s \in States : Residual(ret.policy, ret.gamma, ret.v, epsilon_default, s)
        /\ \A s \in States : \A a \in Actions :
              Lookahead(ret.Q[s][a], ret.v, ret.gamma, s, a)

\* policy_improvement has returned after three rounds, with a tie in some row of Q
C8_Witness ==
    /\ ret.kind = "policy_improvement"
    /\ round >= 3
    /\ \E s \in States : ret.Q[s][0] = ret.Q[s][1]

\* C9: policy_improvement evaluates the uniform policy in its first round
\* whatever was called before; a call returns what the same call returned on
\* the fresh instance; P and r stay what __init__ made them.
C9_StartsFromUniform ==
    /\ (caller = "policy_improvement" /\ round = 0) => policy = UniformPolicy
    /\ (ret.kind = "policy_improvement" /\ hist.kept /\ ret.gamma = hist.gamma)
          => ret = hist.ret
    /\ P = BuildP(env)
    /\ r = Buildr(env)

\* policy_improvement(gamma) has returned a second time, after other calls
C9_Witness ==
    /\ hist.again
    /\ ret.kind = "policy_improvement"
    /\ ret.gamma = hist.gamma

\* C10: policy_evaluation leaves its loop only when delta < epsilon; on the
\* self-loop environment with gamma = 1 every sweep changes v by the reward,
\* the evaluation never leaves the loop and policy_improvement never returns.
C10_NoExitWithoutConvergence ==
    /\ pc = "eval_return" => delta < epsilon
    /\ (env = EnvLoop /\ gamma = GammaDen /\ caller # "none") =>
          /\ pc \in {"improve_loop", "eval_loop"}
          /\ (pc = "eval_loop" /\ v[0] # 0) => delta >= epsilon

\* a hundred sweeps on, the evaluation is still in its loop
C10_Witness ==
    /\ env = EnvLoop
    /\ gamma = GammaDen
    /\ caller = "policy_improvement"
    /\ pc = "eval_loop"
    /\ v[0] >= Scale

====
